---- MODULE Spec2Model ----
(***************************************************************************)
(* Request lifecycle of the insurance backend: the submit handler          *)
(* (createInsuranceRequest), the admin decisions (approveRequest,          *)
(* rejectRequest), the request store they share, the invoice directory     *)
(* and the outbound notifications.  Every await of a handler is one        *)
(* step: the store operation it waits for together with the synchronous    *)
(* code that runs when it resolves.  A handler that has answered shows its *)
(* response in the state that follows its last step; its slot is freed     *)
(* before anything else happens.                                           *)
(***************************************************************************)
EXTENDS Integers, Sequences, FiniteSets, Bags, TLC

\* ------------------------------------------------------------------ bounds
MaxCalls == 2        \* handlers in flight at the same time
MaxClock == 1        \* last millisecond the clock reaches

\* ------------------------------------------------------------ option values
\* null / undefined is the empty tuple, a present value x is <<x>>
None == <<>>
Some(x) == <<x>>

\* ------------------------------------------------------------------ inputs
\* submitter identifiers as the webhook sends them, one character per element
\* one submitter written in two ways, no digit at all, and nothing
OneSubmitter == { <<"9", "1">>, <<"+", "9", "1">>, <<"+">>, <<>> }

\* the same with a second submitter
TwoSubmitters == OneSubmitter \cup { <<"9", "2">> }

\* amounts are [l |-> lakhs, r |-> rupees below a lakh, f |-> 1/100000 rupee]
\* with 0 <= r, f < 100000; the value is l * 100000 + r + f / 100000, so a
\* negative amount has a negative l
Quantities == {45}
Rates == { Some([l |-> 0, r |-> 98, f |-> 50000]) }

\* whole numbers too large for one machine word are [h |-> n \div 100000,
\* l |-> n % 100000]; instants are milliseconds since the epoch
Num(h, l) == [h |-> h, l |-> l]

\* a consent as the body carries it: a boolean, a string (one character per
\* element) or nothing
ConsentBool(b) == [type |-> "boolean", bool |-> b, text |-> <<>>]
ConsentText(s) == [type |-> "string", bool |-> FALSE, text |-> s]
ConsentOmitted == [type |-> "undefined", bool |-> FALSE, text |-> <<>>]

Consents == { ConsentBool(TRUE), ConsentBool(FALSE) }

\* every way of writing a consent that the interface names, and some others
ConsentValues ==
  { ConsentBool(TRUE), ConsentBool(FALSE), ConsentOmitted,
    ConsentText(<<"T", "R", "U", "E">>), ConsentText(<<"t", "r", "u", "e">>),
    ConsentText(<<" ", "Y", "e", "s", " ">>), ConsentText(<<"y", "e", "s">>),
    ConsentText(<<"1">>), ConsentText(<<"n", "o">>), ConsentText(<<"N", "O">>),
    ConsentText(<<"0">>), ConsentText(<<"F", "a", "l", "s", "e">>),
    ConsentText(<<"o", "k">>), ConsentText(<<" ">>) }

\* a timestamp as the body carries it: a number, a string, or nothing; date
\* is the instant new Date(value) yields, None for an Invalid Date
TimestampNumber(n) ==
  [type |-> "number", num |-> n, text |-> <<>>, date |-> Some(n)]
TimestampText(s, date) ==
  [type |-> "string", num |-> Num(0, 0), text |-> s, date |-> date]
TimestampOmitted ==
  [type |-> "undefined", num |-> Num(0, 0), text |-> <<>>, date |-> None]

\* 1700000000, an epoch in seconds
Timestamps == { TimestampNumber(Num(17000, 0)) }

\* epoch seconds and milliseconds as numbers and as numeric strings, an ISO
\* date string with the instant it denotes (1705314600000), a string that is
\* no date, zero, and nothing
TimestampValues ==
  { TimestampNumber(Num(17000, 0)),
    TimestampNumber(Num(17000000, 123)),
    TimestampNumber(Num(0, 0)),
    TimestampText(<<"1", "7", "0", "0", "0", "0", "0", "0", "0", "0">>, None),
    TimestampText(<<"1", "7", "0", "0", "0", "0", "0", "0", "0", "0", "1",
                    "2", "3">>, None),
    TimestampText(<<"2", "0", "2", "4", "-", "0", "1", "-", "1", "5", "T",
                    "1", "0", ":", "3", "0", ":", "0", "0", "Z">>,
                  Some(Num(17053146, 0))),
    TimestampText(<<"s", "o", "o", "n">>, None),
    TimestampOmitted }

\* kantaParchiImage of the body: leading "http" kept as one element
Images == { None }

ImageValues ==
  { None, Some(<<"http", "s://cdn.example/slip.jpg">>), Some(<<"slip.jpg">>) }

Bodies(userIds, timestamps, quantities, rates, consents, images) ==
  [userId : userIds, timestamp : timestamps, quantity : quantities,
   rate : rates, consent : consents, kantaParchiImage : images]

BodiesOf(userIds) ==
  Bodies(userIds, Timestamps, Quantities, Rates, Consents, Images)

\* rejectionReason of the request body: absent, empty, short, long enough
Reasons == { None, Some(""), Some("too short"), Some("wrong vehicle number") }

\* ------------------------------------------------------------------- state
VARIABLES
  store,      \* the insuranceRequest table: row i has id i
  calls,      \* the handlers in flight: a bag of call records
  now         \* the last value Date.now() returned

vars == <<store, calls, now>>

\* ------------------------------------------------------------ pure helpers
IsDigit(ch) == ch \in {"0", "1", "2", "3", "4", "5", "6", "7", "8", "9"}

\* the digits of a character sequence, in order
DigitsOnly(s) == SelectSeq(s, IsDigit)

\* the identifier used as it came
CleanUserId_Raw(userId) == userId

\* String(userId).replace(/[^0-9]/g, '')
CleanUserId(userId) == DigitsOnly(userId)

\* ---- consent
\* String.prototype.toLowerCase, on the letters the inputs use
LowerCase(ch) ==
  CASE ch = "T" -> "t" [] ch = "R" -> "r" [] ch = "U" -> "u" [] ch = "E" -> "e"
    [] ch = "Y" -> "y" [] ch = "S" -> "s" [] ch = "N" -> "n" [] ch = "O" -> "o"
    [] ch = "F" -> "f" [] ch = "A" -> "a" [] ch = "L" -> "l" [] OTHER -> ch

ToLowerCase(s) == [i \in 1..Len(s) |-> LowerCase(s[i])]

\* String.prototype.trim
RECURSIVE TrimStart(_)
TrimStart(s) == IF s # <<>> /\ Head(s) = " " THEN TrimStart(Tail(s)) ELSE s

RECURSIVE TrimEnd(_)
TrimEnd(s) ==
  IF s # <<>> /\ s[Len(s)] = " " THEN TrimEnd(SubSeq(s, 1, Len(s) - 1)) ELSE s

Trim(s) == TrimEnd(TrimStart(s))

\* String(value)
StringOf(value) ==
  CASE value.type = "boolean" ->
         IF value.bool THEN <<"t", "r", "u", "e">> ELSE <<"f", "a", "l", "s", "e">>
    [] value.type = "undefined" ->
         <<"u", "n", "d", "e", "f", "i", "n", "e", "d">>
    [] OTHER -> value.text

\* every string counts as granted
NormalizeBoolean_AnyText(value) ==
  IF value.type = "boolean" THEN value.bool ELSE value.type = "string"

\* normalizeBoolean
NormalizeBoolean(value) ==
  IF value.type = "boolean" THEN value.bool
  ELSE Trim(ToLowerCase(StringOf(value)))
         \in { <<"t", "r", "u", "e">>, <<"y", "e", "s">>, <<"1">> }

\* the consent chain of validateInsuranceRequest: notEmpty and the custom check
ConsentInvalid(value) ==
  \/ value.type = "undefined"
  \/ value.type = "string" /\ value.text = <<>>
  \/ /\ value.type # "boolean"
     /\ Trim(ToLowerCase(StringOf(value)))
          \notin { <<"t", "r", "u", "e">>, <<"f", "a", "l", "s", "e">>,
                   <<"y", "e", "s">>, <<"n", "o">>, <<"1">>, <<"0">> }

\* ---- timestamp
DigitValue(ch) ==
  CASE ch = "0" -> 0 [] ch = "1" -> 1 [] ch = "2" -> 2 [] ch = "3" -> 3
    [] ch = "4" -> 4 [] ch = "5" -> 5 [] ch = "6" -> 6 [] ch = "7" -> 7
    [] ch = "8" -> 8 [] ch = "9" -> 9

\* n * 10 + d
NumShift(n, d) ==
  LET x == n.l * 10 + d
  IN  Num(n.h * 10 + x \div 100000, x % 100000)

\* n * 1000
NumTimes1000(n) ==
  LET x == n.l * 1000
  IN  Num(n.h * 1000 + x \div 100000, x % 100000)

NumLt(a, b) == a.h < b.h \/ (a.h = b.h /\ a.l < b.l)

\* the number the leading digits of s spell, read after acc
RECURSIVE LeadingDigits(_, _)
LeadingDigits(s, acc) ==
  IF s # <<>> /\ IsDigit(Head(s))
  THEN LeadingDigits(Tail(s), NumShift(acc, DigitValue(Head(s))))
  ELSE acc

\* parseInt(value): None is NaN; the inputs carry no sign and no leading blank
ParseInt(value) ==
  CASE value.type = "number" -> Some(value.num)
    [] value.type = "string" /\ value.text # <<>> /\ IsDigit(Head(value.text)) ->
         Some(LeadingDigits(value.text, Num(0, 0)))
    [] OTHER -> None

\* !value
Falsy(value) ==
  \/ value.type = "undefined"
  \/ value.type = "string" /\ value.text = <<>>
  \/ value.type = "number" /\ value.num = Num(0, 0)

\* 10000000000
SecondsLimit == Num(100000, 0)

\* normalizeTimestamp; clock is what new Date() reads
NormalizeTimestamp(value, clock) ==
  IF Falsy(value) THEN Num(0, clock)
  ELSE IF ParseInt(value) # None
  THEN IF NumLt(ParseInt(value)[1], SecondsLimit)
       THEN NumTimes1000(ParseInt(value)[1])
       ELSE ParseInt(value)[1]
  ELSE IF value.date # None THEN value.date[1]
  ELSE Num(0, clock)

\* the timestamp chain of validateInsuranceRequest: exists and the custom check
TimestampInvalid(value) ==
  \/ value.type = "undefined"
  \/ Falsy(value)
  \/ /\ ~(ParseInt(value) # None /\ NumLt(Num(0, 0), ParseInt(value)[1]))
     /\ value.date = None

\* ---- premium
\* the amount with l lakhs, r rupees and f hundred-thousandths, carried
Carry(l, r, f) ==
  LET r2 == r + f \div 100000
  IN  [l |-> l + r2 \div 100000, r |-> r2 % 100000, f |-> f % 100000]

\* quantity * rate
TotalValue(qty, rate) == Carry(qty * rate.l, qty * rate.r, qty * rate.f)

\* amount * 0.002: doubled, then divided by 1000
TimesPremiumRate(t) ==
  LET d == Carry(2 * t.l, 2 * t.r, 2 * t.f)
      x == (d.l % 1000) * 100000 + d.r
      y == (x % 1000) * 100000 + d.f
  IN  [l |-> d.l \div 1000, r |-> x \div 1000, f |-> y \div 1000]

Zero == [l |-> 0, r |-> 0, f |-> 0]

\* 99999999.99
MAX_PREMIUM == [l |-> 999, r |-> 99999, f |-> 99000]

AmountGt(a, b) ==
  \/ a.l > b.l
  \/ a.l = b.l /\ a.r > b.r
  \/ a.l = b.l /\ a.r = b.r /\ a.f > b.f

\* if (premium > MAX_PREMIUM) premium = MAX_PREMIUM
CapPremium(p) == IF AmountGt(p, MAX_PREMIUM) THEN MAX_PREMIUM ELSE p

\* an amount rounded to whole cents, a half away from zero
Round2(a) ==
  LET cents == a.f \div 1000
      rest == a.f % 1000
      up == IF rest > 500 \/ (rest = 500 /\ a.l >= 0) THEN 1 ELSE 0
  IN  Carry(a.l, a.r, (cents + up) * 1000)

\* an amount cut to whole cents
StoreDecimal_Truncates(amount) == Carry(amount.l, amount.r, (amount.f \div 1000) * 1000)

\* the value a premiumAmount column holds after a write: two decimals
StoreDecimal(amount) == Round2(amount)

\* Number.prototype.toFixed(2), as the amount the digits spell
ToFixed2(amount) == Round2(amount)

\* formatCurrency: two fraction digits, as the amount the digits spell
FormatCurrency(amount) == Round2(amount)

\* rate ? parseFloat(rate) : 0   /   parseFloat(request.rate || 0)
RateOrZero(rate) == IF rate = None THEN Zero ELSE rate[1]

\* base premium at creation
BasePremium(qty, rate) ==
  CapPremium(TimesPremiumRate(TotalValue(qty, RateOrZero(rate))))

\* the premium at approval without the cap
ApprovalPremium_Unclamped(request) ==
  IF request.premiumAmount # None
  THEN request.premiumAmount[1]
  ELSE TimesPremiumRate(TotalValue(request.quantity, RateOrZero(request.rate)))

\* premium at approval: the stored one when present, else recomputed; capped
ApprovalPremium(request) ==
  CapPremium(IF request.premiumAmount # None
             THEN request.premiumAmount[1]
             ELSE TimesPremiumRate(
                    TotalValue(request.quantity, RateOrZero(request.rate))))

\* ------------------------------------------------------------ store access
\* prisma.insuranceRequest.findUnique({ where: { id } })
FindById(id) == IF id \in 1..Len(store) THEN Some(store[id]) ELSE None

\* prisma.insuranceRequest.findUnique({ where: { userId } })
FindByUserId(userId) ==
  LET hits == { i \in 1..Len(store) : store[i].userId = userId }
  IN  IF hits = {} THEN None ELSE Some(store[CHOOSE i \in hits : TRUE])

\* the unique index on userId refuses the insert (Prisma error P2002)
UniqueViolation(userId) == \E i \in 1..Len(store) : store[i].userId = userId

\* ------------------------------------------------------------- call records
NoBody ==
  [userId |-> <<>>, timestamp |-> TimestampOmitted, quantity |-> 0,
   rate |-> None, consent |-> ConsentOmitted, kantaParchiImage |-> None]

NoResp ==
  [code |-> 0, hasSuccess |-> TRUE, success |-> FALSE, message |-> <<>>,
   hasErrors |-> FALSE, error |-> <<>>,
   requestId |-> None, status |-> None, invoiceNumber |-> None,
   premiumAmount |-> None, paymentLink |-> None, invoicePdfUrl |-> None,
   rejectionReason |-> None, data |-> None, count |-> None, total |-> None]

\* req.query of GET /api/admin/requests when the URL names no parameter
NoQuery == [status |-> None, limit |-> 50, offset |-> 0]

\* a handler that has not started
NewCall ==
  [kind |-> "", pc |-> "start", id |-> 0, body |-> NoBody, reason |-> None,
   errors |-> FALSE, cleanUserId |-> <<>>, request |-> None, updated |-> None,
   premiumAmount |-> None, invoiceNumber |-> None, paymentLink |-> None,
   pdfFilename |-> None, sent |-> None, rendering |-> None,
   requests |-> <<>>, path |-> <<>>, query |-> NoQuery, matching |-> 0,
   dbReads |-> 0, dbWrites |-> 0, renders |-> 0, sends |-> 0,
   resp |-> NoResp]

\* no message went out
NoMessage ==
  [to |-> <<>>, kind |-> "", invoiceNumber |-> None, premiumAmount |-> None,
   paymentLink |-> None, reason |-> None]

\* res.status(code).json({ success: false, message })
ErrorResp(code, message) ==
  [NoResp EXCEPT !.code = code, !.success = FALSE, !.message = message]

\* the call records in flight
InFlight == BagToSet(calls)

\* no handler has a response waiting to be taken
NoneDone == \A k \in InFlight : k.pc # "done"

\* a new handler may start
CanStart ==
  /\ NoneDone
  /\ BagCardinality(calls) < MaxCalls

\* handler k is in flight, of the given kind, waiting at the given await
At(k, kind, pc) ==
  /\ NoneDone
  /\ k \in InFlight
  /\ k.kind = kind
  /\ k.pc = pc

\* a handler starts and reaches the state call
Start(call) == calls' = calls (+) SetToBag({call})

\* handler k moves on to the state call
Move(k, call) == calls' = (calls (-) SetToBag({k})) (+) SetToBag({call})

\* a handler sends its response
Answer(call, resp) == [call EXCEPT !.pc = "done", !.resp = resp]

\* -------------------------------------------------------------------- Init
Init ==
  /\ store = <<>>
  /\ calls = EmptyBag
  /\ now = 0

\* ------------------------------------------------- createInsuranceRequest
\* validateInsuranceRequest, as far as the fields of the model go
SubmitValidationErrors(body) ==
  \/ body.userId = <<>>
  \/ TimestampInvalid(body.timestamp)
  \/ body.quantity < 1
  \/ ConsentInvalid(body.consent)

\* the 409 of the duplicate lookup
DuplicateResp(existing) ==
  [ErrorResp(409, <<"Request with this User ID already exists">>)
   EXCEPT !.requestId = Some(existing.id), !.status = Some(existing.status)]

\* the 409 of the catch block for Prisma error P2002
UniqueViolationResp ==
  ErrorResp(409, <<"A request with this User ID already exists">>)

\* the handler up to and including the duplicate lookup
CreateLookup(body) ==
  /\ CanStart
  /\ LET call == [NewCall EXCEPT !.kind = "create", !.body = body]
         clean == CleanUserId(body.userId)
         read == [call EXCEPT !.cleanUserId = clean, !.dbReads = 1]
         existing == FindByUserId(clean)
     IN  Start(
           IF SubmitValidationErrors(body)
           THEN Answer(call, [NoResp EXCEPT !.code = 400, !.hasErrors = TRUE])
           ELSE IF clean = <<>>
           THEN Answer(call, ErrorResp(400, <<"Invalid User ID format">>))
           ELSE IF ~NormalizeBoolean(body.consent)
           THEN Answer(call,
                  ErrorResp(400, <<"User consent is required to proceed">>))
           ELSE IF existing # None
           THEN Answer(read, DuplicateResp(existing[1]))
           ELSE [read EXCEPT
                   !.pc = "insert",
                   !.premiumAmount =
                     Some(BasePremium(body.quantity, body.rate))])
  /\ UNCHANGED <<store, now>>

\* the row prisma.insuranceRequest.create stores
NewRow(id, call) ==
  [id |-> id,
   userId |-> call.cleanUserId,
   timestamp |-> NormalizeTimestamp(call.body.timestamp, now),
   kantaParchiImage |-> call.body.kantaParchiImage,
   quantity |-> call.body.quantity,
   rate |-> IF RateOrZero(call.body.rate) = Zero THEN None ELSE call.body.rate,
   consent |-> NormalizeBoolean(call.body.consent),
   status |-> "PENDING_VERIFICATION",
   premiumAmount |-> Some(StoreDecimal(call.premiumAmount[1])),
   invoiceNumber |-> None,
   paymentLink |-> None,
   paymentStatus |-> None,
   adminAction |-> None,
   rejectionReason |-> None,
   invoicePdfUrl |-> None]

\* the creation is answered 200
CreatedResp_Ok(row) ==
  [NoResp EXCEPT
     !.code = 200, !.success = TRUE,
     !.message = <<"Insurance request created successfully. Awaiting admin verification.">>,
     !.requestId = Some(row.id),
     !.status = Some(row.status)]

\* the 201 answer
CreatedResp(row) ==
  [NoResp EXCEPT
     !.code = 201, !.success = TRUE,
     !.message = <<"Insurance request created successfully. Awaiting admin verification.">>,
     !.requestId = Some(row.id),
     !.status = Some(row.status)]

\* the row is stored also when the unique index refuses it
CreateInsert_StoresThenRefuses(k) ==
  /\ At(k, "create", "insert")
  /\ LET call == [k EXCEPT !.dbWrites = 1]
         row == NewRow(Len(store) + 1, call)
     IN  /\ store' = Append(store, row)
         /\ Move(k, Answer(call, IF UniqueViolation(call.cleanUserId)
                                 THEN UniqueViolationResp
                                 ELSE CreatedResp(row)))
  /\ UNCHANGED now

\* prisma.insuranceRequest.create and the response
CreateInsert(k) ==
  /\ At(k, "create", "insert")
  /\ LET call == [k EXCEPT !.dbWrites = 1]
         row == NewRow(Len(store) + 1, call)
     IN  IF UniqueViolation(call.cleanUserId)
         THEN /\ Move(k, Answer(call, UniqueViolationResp))
              /\ UNCHANGED store
         ELSE /\ store' = Append(store, row)
              /\ Move(k, Answer(call, CreatedResp(row)))
  /\ UNCHANGED now

\* the store operation fails (connection lost, ...): the catch block answers 500
CreateInsertFails(k) ==
  /\ At(k, "create", "insert")
  /\ Move(k, Answer(k, ErrorResp(500, <<"Failed to create insurance request">>)))
  /\ UNCHANGED <<store, now>>

\* ---------------------------------------------------------- approveRequest
\* request ids an admin call may name: the stored ones and one unknown
RequestIds == 1..(Len(store) + 1)

\* only an earlier approval is noticed
AlreadyDecided_OnlyApproved(request) == request.status = "APPROVED"

\* request.status !== 'PENDING_VERIFICATION'
AlreadyDecided(request) == request.status # "PENDING_VERIFICATION"

\* `Request is already ${request.status}`
AlreadyMessage(request) == <<"Request is already ", request.status>>

\* `INV${Date.now()}`
InvoiceNumberAt(t) == <<"INV", t>>

\* `https://razorpay.me/temp-link-${invoiceNumber}`
PaymentLinkFor(invoiceNumber) ==
  <<"https://razorpay.me/temp-link-">> \o invoiceNumber

\* `${invoiceNumber}.pdf`
InvoiceFilename(invoiceNumber) == invoiceNumber \o <<".pdf">>

\* process.env.APP_URL || `http://localhost:${port}`
ServerUrl == "http://localhost:5000"

\* `${serverUrl}/invoices/${pdfFilename}`
InvoicePdfUrlFor(filename) == <<ServerUrl, "/invoices/">> \o filename

\* findUnique by id, the not-found and already-decided answers, and the
\* premium, invoice number and payment link of the approval; t is Date.now()
ApproveFind(id, t) ==
  /\ CanStart
  /\ LET request == FindById(id)
         call == [NewCall EXCEPT !.kind = "approve", !.id = id,
                                 !.request = request, !.dbReads = 1]
     IN  Start(
           IF request = None
           THEN Answer(call, ErrorResp(404, <<"Insurance request not found">>))
           ELSE IF AlreadyDecided(request[1])
           THEN Answer(call, ErrorResp(400, AlreadyMessage(request[1])))
           ELSE [call EXCEPT
                   !.pc = "update",
                   !.premiumAmount = Some(ApprovalPremium(request[1])),
                   !.invoiceNumber = InvoiceNumberAt(t),
                   !.paymentLink = PaymentLinkFor(InvoiceNumberAt(t))])
  /\ now' = t
  /\ UNCHANGED store

\* the approval update without the payment status
ApprovedRow_NoPaymentStatus(row, call) ==
  [row EXCEPT !.status = "APPROVED",
              !.adminAction = Some("APPROVED"),
              !.invoiceNumber = call.invoiceNumber,
              !.premiumAmount = Some(StoreDecimal(call.premiumAmount[1])),
              !.paymentLink = call.paymentLink]

\* the row after the approval update
ApprovedRow(row, call) ==
  [row EXCEPT !.status = "APPROVED",
              !.adminAction = Some("APPROVED"),
              !.invoiceNumber = call.invoiceNumber,
              !.premiumAmount = Some(StoreDecimal(call.premiumAmount[1])),
              !.paymentLink = call.paymentLink,
              !.paymentStatus = Some("PENDING")]

\* prisma.insuranceRequest.update (approval); the render starts
ApproveUpdate(k) ==
  /\ At(k, "approve", "update")
  /\ LET row == ApprovedRow(store[k.id], k)
     IN  /\ store' = [store EXCEPT ![k.id] = row]
         /\ Move(k, [k EXCEPT !.pc = "render", !.updated = Some(row),
                              !.dbWrites = 1])
  /\ UNCHANGED now

\* the failure of the approval update is swallowed and the render starts
ApproveUpdateFails_Continues(k) ==
  /\ At(k, "approve", "update")
  /\ Move(k, [k EXCEPT !.pc = "render"])
  /\ UNCHANGED <<store, now>>

\* the approval update throws: the outer catch answers 500
ApproveUpdateFails(k) ==
  /\ At(k, "approve", "update")
  /\ Move(k, Answer(k, ErrorResp(500, <<"Failed to approve request">>)))
  /\ UNCHANGED <<store, now>>

\* ---- generateInvoicePdf
\* what the environment does to one render:
\*   download  the remote image: "refused" (the GET throws or times out),
\*             "written" (the write stream finishes), "openFailed" (the
\*             write stream fails before the file exists), "writeFailed"
\*             (the write stream fails after the file was created)
\*   embed     doc.image accepts the downloaded file
\*   locals    each local fallback path: "none" it does not exist, "good"
\*             it exists and embeds, "bad" it exists and doc.image throws
\*   pdf       the document: "finish", "streamError", "throws"
\*   unlink    unlinkSync of the temporary file succeeds
PossibleImagePaths ==
  <<"uploads/<kantaParchiImage>", "uploads/kantaparchi/<id>.jpg",
    "uploads/kantaparchi/<id>.png", "uploads/kantaparchi/<userId>.jpg",
    "uploads/kantaparchi/<userId>.png">>

\* no local fallback path exists
NoLocal == [i \in 1..Len(PossibleImagePaths) |-> "none"]

\* at most kantaparchi/<id>.jpg exists
FewLocalOutcomes ==
  { NoLocal, [NoLocal EXCEPT ![2] = "good"], [NoLocal EXCEPT ![2] = "bad"] }

RenderEnvs ==
  [download : {"refused", "written", "openFailed", "writeFailed"},
   embed : BOOLEAN, locals : FewLocalOutcomes,
   pdf : {"finish", "streamError", "throws"}, unlink : BOOLEAN]

\* the outcomes told apart for a request without image: the document is
\* written, or its stream fails
PlainRenderEnvs ==
  [download : {"refused"}, embed : {TRUE}, locals : {NoLocal},
   pdf : {"finish", "streamError"}, unlink : {TRUE}]

\* imageUrl.startsWith('http')
StartsWithHttp(imageUrl) == imageUrl # <<>> /\ imageUrl[1] = "http"

\* downloadImageFromUrl: path is whether a local path is returned, temp
\* whether the temporary file exists afterwards, threw whether the returned
\* promise rejected
DownloadImageFromUrl(image, env) ==
  IF image = None \/ ~StartsWithHttp(image[1])
  THEN [path |-> FALSE, temp |-> FALSE, threw |-> FALSE]
  ELSE CASE env.download = "refused" ->
              [path |-> FALSE, temp |-> FALSE, threw |-> FALSE]
         [] env.download = "written" ->
              [path |-> TRUE, temp |-> TRUE, threw |-> FALSE]
         [] env.download = "openFailed" ->
              [path |-> FALSE, temp |-> FALSE, threw |-> TRUE]
         [] env.download = "writeFailed" ->
              [path |-> FALSE, temp |-> TRUE, threw |-> TRUE]

\* cleanupTempImage: whether the file exists afterwards
CleanupTempImage(exists, env) == exists /\ ~env.unlink

\* a render that has not run.  Of a render that has run: how it settled,
\* what it was called with, what the environment did (download is "none"
\* when no download was tried, pdf is "" when no document was begun), what
\* the document shows in the weightment slip box, and the temporary file
NoRendering ==
  [settled |-> "", filename |-> None, invoiceNumber |-> None,
   premiumAmount |-> None, quantity |-> 0, rate |-> None,
   totalShown |-> None, amountShown |-> None, premiumShown |-> None,
   download |-> "none", localExists |-> FALSE, pdf |-> "",
   image |-> "", placeholder |-> FALSE,
   source |-> "", locals |-> <<>>, embed |-> FALSE,
   tempCreated |-> FALSE, tempExists |-> FALSE]

\* the local paths as the file system answers for them: without
\* kantaParchiImage the first one is the uploads directory, which is no image
LocalTries(request, locals) ==
  IF request.kantaParchiImage = None /\ locals[1] = "good"
  THEN [locals EXCEPT ![1] = "bad"]
  ELSE locals

\* the last path that embeds is taken
FirstEmbedded_Last(tries) ==
  IF \E i \in DOMAIN tries : tries[i] = "good"
  THEN CHOOSE i \in DOMAIN tries :
         tries[i] = "good" /\ \A j \in DOMAIN tries : j > i => tries[j] # "good"
  ELSE 0

\* the loop over possibleImagePaths: the first path that exists and embeds,
\* 0 when there is none
FirstEmbedded(tries) ==
  IF \E i \in DOMAIN tries : tries[i] = "good"
  THEN CHOOSE i \in DOMAIN tries :
         tries[i] = "good" /\ \A j \in DOMAIN tries : j < i => tries[j] # "good"
  ELSE 0

\* totalAmount = Number(request.quantity) * Number(request.rate || 0)
TotalAmount(request) == TotalValue(request.quantity, RateOrZero(request.rate))

\* the premium is computed again from the request
PremiumShown_Recomputed(request, premiumAmount) ==
  FormatCurrency(TimesPremiumRate(TotalAmount(request)))

\* the amount under 'Insurance Amount (0.2%)'
PremiumShown(request, premiumAmount) == FormatCurrency(premiumAmount)

\* generateInvoicePdf(request, invoiceNumber, premiumAmount)
GenerateInvoicePdf(request, invoiceNumber, premiumAmount, env) ==
  LET tried == /\ request.kantaParchiImage # None
               /\ StartsWithHttp(request.kantaParchiImage[1])
      got == IF request.kantaParchiImage # None
             THEN DownloadImageFromUrl(request.kantaParchiImage, env)
             ELSE [path |-> FALSE, temp |-> FALSE, threw |-> FALSE]
      tries == LocalTries(request, env.locals)
      first == FirstEmbedded(tries)
      image == IF got.path /\ env.embed THEN "downloaded"
               ELSE IF first # 0 THEN "local"
               ELSE "none"
      source == IF got.path /\ env.embed THEN "downloaded"
                ELSE IF first # 0 THEN PossibleImagePaths[first]
                ELSE "none"
      started == [NoRendering EXCEPT
                    !.invoiceNumber = invoiceNumber,
                    !.premiumAmount = Some(premiumAmount),
                    !.quantity = request.quantity,
                    !.rate = request.rate,
                    !.download = IF tried THEN env.download ELSE "none",
                    !.localExists = (\E i \in DOMAIN tries : tries[i] # "none"),
                    !.locals = tries,
                    !.embed = env.embed,
                    !.tempCreated = got.temp]
      cleaned == IF got.path THEN CleanupTempImage(got.temp, env) ELSE got.temp
  IN  IF got.threw
      THEN [started EXCEPT !.settled = "rejected", !.tempExists = got.temp]
      ELSE IF env.pdf = "finish"
      THEN [started EXCEPT !.settled = "resolved", !.pdf = env.pdf,
                           !.totalShown =
                             Some(FormatCurrency(TotalAmount(request))),
                           !.amountShown =
                             Some(FormatCurrency(TotalAmount(request))),
                           !.premiumShown =
                             Some(PremiumShown(request, premiumAmount)),
                           !.filename = InvoiceFilename(invoiceNumber),
                           !.image = image,
                           !.source = source,
                           !.placeholder = (image = "none"),
                           !.tempExists = cleaned]
      ELSE [started EXCEPT !.settled = "rejected", !.pdf = env.pdf,
                           !.tempExists = cleaned]

\* generateInvoicePdf settles: resolved with the filename, or rejected
ApproveRender(k, env) ==
  /\ At(k, "approve", "render")
  /\ LET result == GenerateInvoicePdf(k.request[1], k.invoiceNumber,
                                      k.premiumAmount[1], env)
         call == [k EXCEPT !.renders = 1, !.rendering = Some(result)]
     IN  Move(k, IF result.settled = "resolved"
                THEN [call EXCEPT !.pc = "attach",
                                  !.pdfFilename = result.filename]
                ELSE [call EXCEPT !.pc = "notify"])
  /\ UNCHANGED <<store, now>>

\* the download's response stream fails or stalls after the headers: the
\* file writer neither finishes nor fails, the promise downloadImageFromUrl
\* returned stays pending and generateInvoicePdf never settles
ApproveRenderStalls(k) ==
  /\ At(k, "approve", "render")
  /\ k.request[1].kantaParchiImage # None
  /\ StartsWithHttp(k.request[1].kantaParchiImage[1])
  /\ LET result == [NoRendering EXCEPT
                      !.settled = "pending",
                      !.invoiceNumber = k.invoiceNumber,
                      !.premiumAmount = k.premiumAmount,
                      !.quantity = k.request[1].quantity,
                      !.rate = k.request[1].rate,
                      !.download = "stalled",
                      !.tempCreated = TRUE,
                      !.tempExists = TRUE]
     IN  Move(k, [k EXCEPT !.pc = "stalled", !.renders = 1,
                           !.rendering = Some(result)])
  /\ UNCHANGED <<store, now>>

\* the row after the update that attaches the document
AttachedRow(row, call) ==
  [row EXCEPT !.invoicePdfUrl = InvoicePdfUrlFor(call.pdfFilename)]

\* prisma.insuranceRequest.update({ data: { invoicePdfUrl } }), or its failure
ApproveAttach(k, ok) ==
  /\ At(k, "approve", "attach")
  /\ LET row == AttachedRow(store[k.id], k)
     IN  IF ok
         THEN /\ store' = [store EXCEPT ![k.id] = row]
              /\ Move(k, [k EXCEPT !.pc = "notify", !.updated = Some(row),
                                   !.dbWrites = 2])
         ELSE /\ store' = store
              /\ Move(k, [k EXCEPT !.pc = "notify"])
  /\ UNCHANGED now

\* the approval message sent to request.userId
ApprovalMessage(call) ==
  [to |-> call.request[1].userId, kind |-> "APPROVED",
   invoiceNumber |-> call.invoiceNumber,
   premiumAmount |-> Some(ToFixed2(call.premiumAmount[1])),
   paymentLink |-> call.paymentLink, reason |-> None]

\* the 200 answer of approveRequest, read from updatedRequest
ApproveResp(call) ==
  [NoResp EXCEPT
     !.code = 200, !.success = TRUE,
     !.message = <<"Request approved successfully">>,
     !.requestId = Some(call.updated[1].id),
     !.invoiceNumber = call.updated[1].invoiceNumber,
     !.premiumAmount = call.updated[1].premiumAmount,
     !.paymentLink = call.updated[1].paymentLink,
     !.invoicePdfUrl = call.updated[1].invoicePdfUrl,
     !.status = Some(call.updated[1].status)]

\* a failed send reaching the outer catch
ApproveNotifyResp_Propagates(call, ok) ==
  IF ok THEN ApproveResp(call)
  ELSE ErrorResp(500, <<"Failed to approve request">>)

\* what approveRequest answers once the notification settled: a failed
\* send is caught next to the call and only logged
ApproveNotifyResp(call, ok) == ApproveResp(call)

\* sendChatraceMessage settles; the answer
ApproveNotify(k, ok) ==
  /\ At(k, "approve", "notify")
  /\ LET call == [k EXCEPT !.sends = 1,
                           !.sent = IF ok THEN Some(ApprovalMessage(k)) ELSE None]
     IN  Move(k, Answer(call, ApproveNotifyResp(call, ok)))
  /\ UNCHANGED <<store, now>>

\* ----------------------------------------------------------- rejectRequest
\* validateRejection (the chain run by the route before the handler): the
\* errors it records in the request
RejectionValidationErrors(reason) ==
  \/ reason = None
  \/ reason[1] = ""
  \/ Len(reason[1]) < 10
  \/ Len(reason[1]) > 500

\* !rejectionReason
ReasonMissing(reason) == reason = None \/ reason[1] = ""

\* the handler's own check of the body before the store is read; the
\* errors recorded by the route's validation chain are not consulted
RejectRefused(reason, errors) == ReasonMissing(reason)

\* the reason check, findUnique by id, the not-found and already-decided answers
RejectFind(id, reason) ==
  /\ CanStart
  /\ LET errors == RejectionValidationErrors(reason)
         call == [NewCall EXCEPT !.kind = "reject", !.id = id,
                                 !.reason = reason, !.errors = errors]
         request == FindById(id)
         read == [call EXCEPT !.request = request, !.dbReads = 1]
     IN  Start(
           IF RejectRefused(reason, errors)
           THEN Answer(call, ErrorResp(400, <<"Rejection reason is required">>))
           ELSE IF request = None
           THEN Answer(read, ErrorResp(404, <<"Insurance request not found">>))
           ELSE IF AlreadyDecided(request[1])
           THEN Answer(read, ErrorResp(400, AlreadyMessage(request[1])))
           ELSE [read EXCEPT !.pc = "update"])
  /\ UNCHANGED <<store, now>>

\* the row after the rejection update
RejectedRow(row, call) ==
  [row EXCEPT !.status = "REJECTED",
              !.adminAction = Some("REJECTED"),
              !.rejectionReason = call.reason]

\* prisma.insuranceRequest.update (rejection)
RejectUpdate(k) ==
  /\ At(k, "reject", "update")
  /\ LET row == RejectedRow(store[k.id], k)
     IN  /\ store' = [store EXCEPT ![k.id] = row]
         /\ Move(k, [k EXCEPT !.pc = "notify", !.updated = Some(row),
                              !.dbWrites = 1])
  /\ UNCHANGED now

\* the rejection update throws: the catch answers 500
RejectUpdateFails(k) ==
  /\ At(k, "reject", "update")
  /\ Move(k, Answer(k, ErrorResp(500, <<"Failed to reject request">>)))
  /\ UNCHANGED <<store, now>>

\* the rejection message without the reason
RejectionMessage_NoReason(call) ==
  [to |-> call.request[1].userId, kind |-> "REJECTED",
   invoiceNumber |-> None, premiumAmount |-> None,
   paymentLink |-> None, reason |-> None]

\* the rejection message sent to request.userId
RejectionMessage(call) ==
  [to |-> call.request[1].userId, kind |-> "REJECTED",
   invoiceNumber |-> None, premiumAmount |-> None,
   paymentLink |-> None, reason |-> call.reason]

\* the 200 answer of rejectRequest, read from updatedRequest
RejectResp(call) ==
  [NoResp EXCEPT
     !.code = 200, !.success = TRUE,
     !.message = <<"Request rejected successfully">>,
     !.requestId = Some(call.updated[1].id),
     !.status = Some(call.updated[1].status),
     !.rejectionReason = call.updated[1].rejectionReason]

\* what rejectRequest answers once the notification settled: the send is
\* awaited outside any inner try, so its failure reaches the outer catch
RejectNotifyResp(call, ok) ==
  IF ok THEN RejectResp(call)
  ELSE ErrorResp(500, <<"Failed to reject request">>)

\* sendChatraceMessage settles; the answer
RejectNotify(k, ok) ==
  /\ At(k, "reject", "notify")
  /\ LET call == [k EXCEPT !.sends = 1,
                           !.sent = IF ok THEN Some(RejectionMessage(k)) ELSE None]
     IN  Move(k, Answer(call, RejectNotifyResp(call, ok)))
  /\ UNCHANGED <<store, now>>

\* ----------------------------------------------- recalculate-premiums script
\* a - b
AmountMinus(a, b) == Carry(a.l - b.l, a.r - b.r, a.f - b.f)

\* 0.01
Cent == [l |-> 0, r |-> 0, f |-> 1000]

\* Math.abs(a - b) < 0.01
WithinCent(a, b) ==
  /\ AmountGt(Cent, AmountMinus(a, b))
  /\ AmountGt(Cent, AmountMinus(b, a))

\* the premium is not capped
RecalculatedPremium_Uncapped(req) ==
  TimesPremiumRate(TotalValue(req.quantity, RateOrZero(req.rate)))

\* newPremium of one request
RecalculatedPremium(req) ==
  CapPremium(TimesPremiumRate(TotalValue(req.quantity, RateOrZero(req.rate))))

\* no request is skipped
RecalcSkips_Never(req) == FALSE

\* the request is skipped: its premium is within a cent of the new one
RecalcSkips(req) ==
  /\ req.premiumAmount # None
  /\ WithinCent(RecalculatedPremium(req), req.premiumAmount[1])

\* the loop runs on to the next request it has to update
RECURSIVE SkipUnchanged(_)
SkipUnchanged(requests) ==
  IF requests # <<>> /\ RecalcSkips(Head(requests))
  THEN SkipUnchanged(Tail(requests))
  ELSE requests

\* the script has gone through its list: process.exit(0)
RecalcContinue(call, requests) ==
  IF requests = <<>>
  THEN Answer([call EXCEPT !.requests = <<>>], NoResp)
  ELSE [call EXCEPT !.pc = "update", !.requests = requests]

\* findMany of every request, and the loop up to its first update
RecalcFetch ==
  /\ CanStart
  /\ Start(RecalcContinue([NewCall EXCEPT !.kind = "recalc", !.dbReads = 1],
                          SkipUnchanged(store)))
  /\ UNCHANGED <<store, now>>

\* the update of one request's premiumAmount, and the loop up to the next
RecalcUpdate(k) ==
  /\ At(k, "recalc", "update")
  /\ LET req == Head(k.requests)
     IN  /\ store' = [store EXCEPT
                        ![req.id].premiumAmount =
                          Some(StoreDecimal(RecalculatedPremium(req)))]
         /\ Move(k, RecalcContinue([k EXCEPT !.dbWrites = k.dbWrites + 1],
                                   SkipUnchanged(Tail(k.requests))))
  /\ UNCHANGED now

\* an update throws: the script logs the error and exits with code 1
RecalcUpdateFails(k) ==
  /\ At(k, "recalc", "update")
  /\ Move(k, Answer(k, [NoResp EXCEPT !.code = 1]))
  /\ UNCHANGED <<store, now>>

\* ---------------------------------------------------------- other requests
\* the mount points and paths of the application, in the order of server.js
Routes == <<"/api-docs", "/api-docs.json", "/api/insurance/", "/api/admin/",
            "/", "/health">>

\* a route of the application takes the path
Routed(path) == \E i \in 1..Len(Routes) : Routes[i] = path[1]

\* the 404 handler that follows every route
RouteNotFoundResp ==
  [NoResp EXCEPT !.code = 404, !.hasSuccess = FALSE,
                 !.error = <<"Route not found">>]

\* the path of a document link: the link without the server's address
PathOf(url) == Tail(url)

\* GET of the path of a document link
GetInvoice(url) ==
  /\ CanStart
  /\ LET call == [NewCall EXCEPT !.kind = "get", !.path = PathOf(url)]
     IN  Start(Answer(call, IF Routed(call.path)
                            THEN [NoResp EXCEPT !.code = 200, !.success = TRUE]
                            ELSE RouteNotFoundResp))
  /\ UNCHANGED <<store, now>>

\* ---- GET /api/insurance/status/:userId
\* the path parameter used as it came
StatusUserId_Raw(userId) == userId

\* String(userId).replace(/[^0-9]/g, '')
StatusUserId(userId) == DigitsOnly(userId)

\* the 200 answer: the fields of the select that the model keeps
StatusResp(row) ==
  [NoResp EXCEPT
     !.code = 200, !.success = TRUE,
     !.requestId = Some(row.id),
     !.status = Some(row.status),
     !.invoiceNumber = row.invoiceNumber,
     !.premiumAmount = row.premiumAmount,
     !.paymentLink = row.paymentLink,
     !.rejectionReason = row.rejectionReason]

\* getRequestByUserId: findUnique by the cleaned identifier, 200 or 404
GetRequestByUserId(userId) ==
  /\ CanStart
  /\ LET clean == StatusUserId(userId)
         call == [NewCall EXCEPT !.kind = "status",
                                 !.body = [NoBody EXCEPT !.userId = userId],
                                 !.cleanUserId = clean,
                                 !.dbReads = 1]
         insuranceRequest == FindByUserId(clean)
     IN  Start(Answer(call,
           IF insuranceRequest = None
           THEN ErrorResp(404, <<"No request found for this User ID">>)
           ELSE StatusResp(insuranceRequest[1])))
  /\ UNCHANGED <<store, now>>

\* the lookup fails: the catch block answers 500
GetRequestByUserIdFails(userId) ==
  /\ CanStart
  /\ LET call == [NewCall EXCEPT !.kind = "status",
                                 !.body = [NoBody EXCEPT !.userId = userId],
                                 !.cleanUserId = StatusUserId(userId),
                                 !.dbReads = 1]
     IN  Start(Answer(call, ErrorResp(500, <<"Failed to fetch request status">>)))
  /\ UNCHANGED <<store, now>>

\* ---- GET /api/admin/pending
\* the creation instant of row i: rows are numbered in the order of creation
CreatedAt(i) == i

\* every request is listed
PendingWhere_Any(row) == TRUE

\* where: { status: 'PENDING_VERIFICATION' }
PendingWhere(row) == row.status = "PENDING_VERIFICATION"

\* orderBy: { createdAt: 'desc' }, on a set of row ids
RECURSIVE OrderByCreatedAtDesc(_)
OrderByCreatedAtDesc(ids) ==
  IF ids = {} THEN <<>>
  ELSE LET newest == CHOOSE i \in ids : \A j \in ids : CreatedAt(j) <= CreatedAt(i)
       IN  <<newest>> \o OrderByCreatedAtDesc(ids \ {newest})

\* prisma.insuranceRequest.findMany of the pending requests: their ids
FindManyPending ==
  OrderByCreatedAtDesc({ i \in 1..Len(store) : PendingWhere(store[i]) })

\* getPendingRequests: one findMany, answered 200 with count and data
GetPendingRequests ==
  /\ CanStart
  /\ LET call == [NewCall EXCEPT !.kind = "pending", !.dbReads = 1]
         pendingRequests == FindManyPending
     IN  Start(Answer(call,
           [NoResp EXCEPT !.code = 200, !.success = TRUE,
                          !.count = Some(Len(pendingRequests)),
                          !.data = Some(pendingRequests)]))
  /\ UNCHANGED <<store, now>>

\* the findMany fails: the catch block answers 500
GetPendingRequestsFails ==
  /\ CanStart
  /\ LET call == [NewCall EXCEPT !.kind = "pending", !.dbReads = 1]
     IN  Start(Answer(call, ErrorResp(500, <<"Failed to fetch pending requests">>)))
  /\ UNCHANGED <<store, now>>

\* ---- GET /api/admin/requests
\* where = status ? { status } : {}
RequestsWhere(query, row) ==
  query.status = None \/ row.status = query.status[1]

\* the ids of the stored requests the filter takes
Matching(query) == { i \in 1..Len(store) : RequestsWhere(query, store[i]) }

\* take: parseInt(limit), skip: parseInt(offset)
TakeSkip(ids, query) ==
  SubSeq(ids, query.offset + 1,
         IF query.offset + query.limit < Len(ids)
         THEN query.offset + query.limit ELSE Len(ids))

\* findMany({ where, orderBy: { createdAt: 'desc' }, take, skip }): the ids
FindManyRequests(query) ==
  TakeSkip(OrderByCreatedAtDesc(Matching(query)), query)

\* getAllRequests up to the end of its findMany
GetAllFind(query) ==
  /\ CanStart
  /\ LET ids == FindManyRequests(query)
     IN  Start([NewCall EXCEPT
                  !.kind = "list", !.pc = "count", !.query = query,
                  !.requests = [n \in 1..Len(ids) |-> store[ids[n]]],
                  !.matching = Cardinality(Matching(query)),
                  !.dbReads = 1])
  /\ UNCHANGED <<store, now>>

\* the findMany fails: the catch block answers 500
GetAllFindFails(query) ==
  /\ CanStart
  /\ LET call == [NewCall EXCEPT !.kind = "list", !.query = query, !.dbReads = 1]
     IN  Start(Answer(call, ErrorResp(500, <<"Failed to fetch requests">>)))
  /\ UNCHANGED <<store, now>>

\* prisma.insuranceRequest.count({ where }) and the 200 answer
GetAllCount(k) ==
  /\ At(k, "list", "count")
  /\ LET call == [k EXCEPT !.dbReads = 2]
     IN  Move(k, Answer(call,
           [NoResp EXCEPT
              !.code = 200, !.success = TRUE,
              !.count = Some(Len(k.requests)),
              !.total = Some(Cardinality(Matching(k.query))),
              !.data = Some([n \in 1..Len(k.requests) |-> k.requests[n].id])]))
  /\ UNCHANGED <<store, now>>

\* the count fails: the catch block answers 500
GetAllCountFails(k) ==
  /\ At(k, "list", "count")
  /\ Move(k, Answer([k EXCEPT !.dbReads = 2],
                     ErrorResp(500, <<"Failed to fetch requests">>)))
  /\ UNCHANGED <<store, now>>

\* ------------------------------------------------------------ environment
\* the response has been sent: the handler is gone
Release(k) ==
  /\ k \in InFlight
  /\ k.pc = "done"
  /\ calls' = calls (-) SetToBag({k})
  /\ UNCHANGED <<store, now>>

\* every handler, one submitter
Next ==
  \/ \E body \in BodiesOf(OneSubmitter) : CreateLookup(body)
  \/ \E k \in InFlight : CreateInsert(k)
  \/ \E k \in InFlight : CreateInsertFails(k)
  \/ \E id \in RequestIds : \E t \in now..MaxClock : ApproveFind(id, t)
  \/ \E k \in InFlight : ApproveUpdate(k)
  \/ \E k \in InFlight : ApproveUpdateFails(k)
  \/ \E k \in InFlight : \E env \in PlainRenderEnvs : ApproveRender(k, env)
  \/ \E k \in InFlight : \E ok \in BOOLEAN : ApproveAttach(k, ok)
  \/ \E k \in InFlight : \E ok \in BOOLEAN : ApproveNotify(k, ok)
  \/ \E id \in RequestIds : \E reason \in Reasons : RejectFind(id, reason)
  \/ \E k \in InFlight : RejectUpdate(k)
  \/ \E k \in InFlight : RejectUpdateFails(k)
  \/ \E k \in InFlight : \E ok \in BOOLEAN : RejectNotify(k, ok)
  \/ \E k \in InFlight : Release(k)

Spec == Init /\ [][Next]_vars

\* the submit handler alone, two submitters
NextSubmit ==
  \/ \E body \in BodiesOf(TwoSubmitters) : CreateLookup(body)
  \/ \E k \in InFlight : CreateInsert(k)
  \/ \E k \in InFlight : CreateInsertFails(k)
  \/ \E k \in InFlight : Release(k)

SpecSubmit == Init /\ [][NextSubmit]_vars

\* submissions and approvals, two submitters
NextApprove ==
  \/ \E body \in BodiesOf(TwoSubmitters) : CreateLookup(body)
  \/ \E k \in InFlight : CreateInsert(k)
  \/ \E k \in InFlight : CreateInsertFails(k)
  \/ \E id \in RequestIds : \E t \in now..MaxClock : ApproveFind(id, t)
  \/ \E k \in InFlight : ApproveUpdate(k)
  \/ \E k \in InFlight : ApproveUpdateFails(k)
  \/ \E k \in InFlight : \E env \in PlainRenderEnvs : ApproveRender(k, env)
  \/ \E k \in InFlight : \E ok \in BOOLEAN : ApproveAttach(k, ok)
  \/ \E k \in InFlight : \E ok \in BOOLEAN : ApproveNotify(k, ok)
  \/ \E k \in InFlight : Release(k)

SpecApprove == Init /\ [][NextApprove]_vars

\* ---- premiums: large and negative amounts, requests older than the premium
PremiumQuantities == {45, 20000}

\* no rate, 98.50, -5.00 and 3000000.00
PremiumRates ==
  { None, Some([l |-> 0, r |-> 98, f |-> 50000]),
    Some([l |-> -1, r |-> 99995, f |-> 0]), Some([l |-> 30, r |-> 0, f |-> 0]) }

PremiumBodies ==
  Bodies({ <<"9", "1">> }, Timestamps, PremiumQuantities, PremiumRates,
         { ConsentBool(TRUE) }, Images)

\* a request stored before premiums were computed at creation
LegacyRow(body) ==
  [NewRow(1, [NewCall EXCEPT !.body = body,
                             !.cleanUserId = CleanUserId(body.userId),
                             !.premiumAmount = Some(Zero)])
   EXCEPT !.premiumAmount = None]

InitPremium ==
  /\ now = 0
  /\ calls = EmptyBag
  /\ store \in { <<>> } \cup { <<LegacyRow(body)>> : body \in PremiumBodies }

NextPremium ==
  \/ \E body \in PremiumBodies : CreateLookup(body)
  \/ \E k \in InFlight : CreateInsert(k)
  \/ \E id \in RequestIds : ApproveFind(id, now)
  \/ \E k \in InFlight : ApproveUpdate(k)
  \/ \E k \in InFlight : \E env \in PlainRenderEnvs : ApproveRender(k, env)
  \/ \E k \in InFlight : ApproveAttach(k, TRUE)
  \/ \E k \in InFlight : ApproveNotify(k, TRUE)
  \/ \E id \in RequestIds : RejectFind(id, Some("wrong vehicle number"))
  \/ \E k \in InFlight : RejectUpdate(k)
  \/ \E k \in InFlight : RejectNotify(k, TRUE)
  \/ RecalcFetch
  \/ \E k \in InFlight : RecalcUpdate(k)
  \/ \E k \in InFlight : RecalcUpdateFails(k)
  \/ \E k \in InFlight : Release(k)

SpecPremium == InitPremium /\ [][NextPremium]_vars

\* ---- consent: every way of writing it, with good and bad other fields
ConsentBodies ==
  Bodies({ <<"9", "1">>, <<"+">> }, Timestamps, {45, 0}, Rates,
         ConsentValues, Images)

NextConsent ==
  \/ \E body \in ConsentBodies : CreateLookup(body)
  \/ \E k \in InFlight : CreateInsert(k)
  \/ \E k \in InFlight : Release(k)

SpecConsent == Init /\ [][NextConsent]_vars

\* ---- invoices: requests with and without image, every outcome of a render
RenderBodies ==
  Bodies({ <<"9", "1">> }, Timestamps, Quantities, Rates,
         { ConsentBool(TRUE) }, ImageValues)

\* the document links stored on the requests
StoredInvoiceUrls ==
  { store[i].invoicePdfUrl : i \in { j \in 1..Len(store) :
                                       store[j].invoicePdfUrl # None } }

NextRender ==
  \/ \E body \in RenderBodies : CreateLookup(body)
  \/ \E k \in InFlight : CreateInsert(k)
  \/ \E id \in RequestIds : ApproveFind(id, now)
  \/ \E k \in InFlight : ApproveUpdate(k)
  \/ \E k \in InFlight : \E env \in RenderEnvs : ApproveRender(k, env)
  \/ \E k \in InFlight : ApproveAttach(k, TRUE)
  \/ \E k \in InFlight : ApproveNotify(k, TRUE)
  \/ \E url \in StoredInvoiceUrls : GetInvoice(url)
  \/ \E k \in InFlight : Release(k)

SpecRender == Init /\ [][NextRender]_vars

\* ---- timestamps: every way of writing one
TimestampBodies ==
  Bodies({ <<"9", "1">>, <<"9", "2">> }, TimestampValues, Quantities, Rates,
         { ConsentBool(TRUE) }, Images)

NextTimestamp ==
  \/ \E body \in TimestampBodies : CreateLookup(body)
  \/ \E k \in InFlight : CreateInsert(k)
  \/ \E k \in InFlight : Release(k)

SpecTimestamp == Init /\ [][NextTimestamp]_vars

\* submissions and status queries, two submitters
\* 91, +91, 9 1, 92, 9-2, 93 and +
StatusUserIds ==
  { <<"9", "1">>, <<"+", "9", "1">>, <<"9", " ", "1">>, <<"9", "2">>,
    <<"9", "-", "2">>, <<"9", "3">>, <<"+">> }

NextStatus ==
  \/ \E body \in BodiesOf(TwoSubmitters) : CreateLookup(body)
  \/ \E k \in InFlight : CreateInsert(k)
  \/ \E userId \in StatusUserIds : GetRequestByUserId(userId)
  \/ \E userId \in StatusUserIds : GetRequestByUserIdFails(userId)
  \/ \E k \in InFlight : Release(k)

SpecStatus == Init /\ [][NextStatus]_vars

\* submissions, decisions and the pending list, three submitters
ListingBodies ==
  Bodies({ <<"9", "1">>, <<"9", "2">>, <<"9", "3">> }, Timestamps,
         Quantities, Rates, { ConsentBool(TRUE) }, Images)

NextListing ==
  \/ \E body \in ListingBodies : CreateLookup(body)
  \/ \E k \in InFlight : CreateInsert(k)
  \/ \E id \in RequestIds : ApproveFind(id, now)
  \/ \E k \in InFlight : ApproveUpdate(k)
  \/ \E k \in InFlight :
       \E env \in [download : {"refused"}, embed : {TRUE}, locals : {NoLocal},
                   pdf : {"finish"}, unlink : {TRUE}] : ApproveRender(k, env)
  \/ \E k \in InFlight : ApproveAttach(k, TRUE)
  \/ \E k \in InFlight : ApproveNotify(k, TRUE)
  \/ \E id \in RequestIds : RejectFind(id, Some("wrong vehicle number"))
  \/ \E k \in InFlight : RejectUpdate(k)
  \/ \E k \in InFlight : RejectNotify(k, TRUE)
  \/ GetPendingRequests
  \/ GetPendingRequestsFails
  \/ \E k \in InFlight : Release(k)

SpecListing == Init /\ [][NextListing]_vars

\* one request at a time, every outcome of the render
NextSettle ==
  \/ calls = EmptyBag /\ \E body \in RenderBodies : CreateLookup(body)
  \/ \E k \in InFlight : CreateInsert(k)
  \/ calls = EmptyBag /\ \E id \in RequestIds : ApproveFind(id, now)
  \/ \E k \in InFlight : ApproveUpdate(k)
  \/ \E k \in InFlight : \E env \in RenderEnvs : ApproveRender(k, env)
  \/ \E k \in InFlight : ApproveRenderStalls(k)
  \/ \E k \in InFlight : ApproveAttach(k, TRUE)
  \/ \E k \in InFlight : ApproveNotify(k, TRUE)
  \/ \E k \in InFlight : Release(k)

\* the steps the store, the file system and the event loop take in the end
SettleSteps ==
  \E k \in InFlight :
    \/ CreateInsert(k)
    \/ ApproveUpdate(k)
    \/ \E env \in RenderEnvs : ApproveRender(k, env)
    \/ ApproveAttach(k, TRUE)
    \/ ApproveNotify(k, TRUE)
    \/ Release(k)

SpecSettle == Init /\ [][NextSettle]_vars /\ WF_vars(SettleSteps)

\* one request at a time, every combination of local images
NextImage ==
  \/ calls = EmptyBag /\ \E body \in RenderBodies : CreateLookup(body)
  \/ \E k \in InFlight : CreateInsert(k)
  \/ calls = EmptyBag /\ \E id \in RequestIds : ApproveFind(id, now)
  \/ \E k \in InFlight : ApproveUpdate(k)
  \/ \E k \in InFlight :
       \E env \in [download : {"refused", "written"}, embed : BOOLEAN,
                   locals : [1..Len(PossibleImagePaths) ->
                               {"none", "good", "bad"}],
                   pdf : {"finish"}, unlink : {TRUE}] :
         ApproveRender(k, env)
  \/ \E k \in InFlight : ApproveAttach(k, TRUE)
  \/ \E k \in InFlight : ApproveNotify(k, TRUE)
  \/ \E k \in InFlight : Release(k)

SpecImage == Init /\ [][NextImage]_vars

\* submissions, rejections and the paged list
\* status absent, PENDING_VERIFICATION or REJECTED; limit 1 or the default;
\* offset 0 or 1
Queries ==
  [status : { None, Some("PENDING_VERIFICATION"), Some("REJECTED") },
   limit : {1, NoQuery.limit}, offset : {0, 1}]

NextRequests ==
  \/ \E body \in ListingBodies : CreateLookup(body)
  \/ \E k \in InFlight : CreateInsert(k)
  \/ \E id \in RequestIds : RejectFind(id, Some("wrong vehicle number"))
  \/ \E k \in InFlight : RejectUpdate(k)
  \/ \E k \in InFlight : RejectNotify(k, TRUE)
  \/ \E query \in Queries : GetAllFind(query)
  \/ \E query \in Queries : GetAllFindFails(query)
  \/ \E k \in InFlight : GetAllCount(k)
  \/ \E k \in InFlight : GetAllCountFails(k)
  \/ \E k \in InFlight : Release(k)

SpecRequests == Init /\ [][NextRequests]_vars

\* ================================================================== claims
Terminal == {"APPROVED", "REJECTED"}

Rows == 1..Len(store)

\* handler k took the step, and handler k2 is what it became
Moved(k) == CopiesIn(k, calls') < CopiesIn(k, calls)
Arrived(k2) == CopiesIn(k2, calls') > CopiesIn(k2, calls)

\* approve handlers in flight that have committed their approval of request i
CommittedApprovals(i) ==
  { k \in InFlight : k.kind = "approve" /\ k.id = i /\ k.dbWrites >= 1 }

\* C1: once the stored status of a request is APPROVED or REJECTED, no step
\* of any handler changes it.
C1_TerminalStatusNeverChanges ==
  [][\A i \in Rows :
       store[i].status \in Terminal => store'[i].status = store[i].status]_vars

\* C2: of the approve calls racing on one request at most one commits the
\* approval update; no two handlers have both written APPROVED to it.
C2_OneApprovalCommits ==
  \A i \in Rows :
    /\ Cardinality(CommittedApprovals(i)) <= 1
    /\ \A k \in CommittedApprovals(i) : CopiesIn(k, calls) = 1

\* an approve or reject handler whose findUnique returned a decided request
ReadDecided(k) ==
  /\ k.kind \in {"approve", "reject"}
  /\ k.request # None
  /\ k.request[1].status # "PENDING_VERIFICATION"

C3_Refused ==
  \A k \in InFlight :
    ReadDecided(k) =>
      /\ k.pc = "done"
      /\ k.resp.code = 400
      /\ k.resp.success = FALSE
      /\ k.resp.message = <<"Request is already ", k.request[1].status>>
      /\ k.dbWrites = 0 /\ k.renders = 0 /\ k.sends = 0

C3_StoreUntouched ==
  \A k \in BagToSet(calls') : (Arrived(k) /\ ReadDecided(k)) => store' = store

\* C3: an approve or reject call that reads a request whose status is not
\* PENDING_VERIFICATION answers 400 'Request is already <status>', makes no
\* store update, no render and no notification, and the step in which it
\* reads and answers leaves every stored request as it was.
C3_DecidedRequestRefused == []C3_Refused /\ [][C3_StoreUntouched]_vars

\* an admin call found the request already decided and answered 400
C3_Witness ==
  \E k \in InFlight :
    /\ ReadDecided(k)
    /\ k.kind = "reject"
    /\ k.request[1].status = "APPROVED"
    /\ k.resp.code = 400
    /\ store[k.id].status = "APPROVED"

\* C4: no two stored requests have the same digits-only submitter identifier.
C4_UniqueSubmitter ==
  \A i, j \in Rows :
    i # j => DigitsOnly(store[i].userId) # DigitsOnly(store[j].userId)

\* two submissions whose identifiers differ only in a non-digit character
\* raced; the second was refused by the unique index, a second submitter
\* was stored beside the first
C4_Witness ==
  /\ Len(store) = 1
  /\ \E k \in InFlight :
       /\ k.kind = "create" /\ k.pc = "done" /\ k.resp.code = 409
       /\ k.dbWrites = 1
       /\ k.body.userId # store[1].userId
       /\ DigitsOnly(k.body.userId) = store[1].userId

\* C5: every submit refused as a duplicate answers 409 with the existing
\* request's identifier and status.
C5_DuplicateCarriesExisting ==
  \A k \in InFlight :
    (k.kind = "create" /\ k.pc = "done" /\ k.resp.code = 409) =>
      /\ k.resp.requestId # None
      /\ k.resp.status # None

\* C6: a reject call whose reason fails the route's validation (absent,
\* empty, shorter than 10 characters) answers 400 without reading or
\* writing the store.
C6_ShortReasonRefused ==
  \A k \in InFlight :
    (k.kind = "reject" /\ k.errors) =>
      /\ k.pc = "done"
      /\ k.resp.code = 400
      /\ k.dbReads = 0
      /\ k.dbWrites = 0

\* C7: a reject call that committed REJECTED and whose notification failed
\* still answers 200.
C7_RejectAnswers200 ==
  \A k \in InFlight :
    (/\ k.kind = "reject" /\ k.pc = "done"
     /\ k.dbWrites = 1 /\ k.sends = 1 /\ k.sent = None) =>
      k.resp.code = 200

\* the fields the approval update sets
SameApproval(a, b) ==
  /\ a.status = b.status
  /\ a.invoiceNumber = b.invoiceNumber
  /\ a.premiumAmount = b.premiumAmount
  /\ a.paymentLink = b.paymentLink
  /\ a.paymentStatus = b.paymentStatus

C8_Answers200 ==
  \A k \in InFlight :
    (k.kind = "approve" /\ k.pc = "done" /\ k.dbWrites >= 1) =>
      /\ k.resp.code = 200
      /\ k.resp.success
      /\ k.renders = 1
      /\ k.sends = 1

C8_ApprovalKept ==
  \A k \in InFlight :
    (/\ k.kind = "approve"
     /\ k.pc \in {"render", "attach", "notify"}
     /\ Moved(k)) =>
      SameApproval(store'[k.id], store[k.id])

\* C8: whatever the outcomes of the render, of the update that attaches the
\* document and of the notification, no step of approveRequest after its
\* approval update changes the status, invoice number, premium, payment
\* link or payment status of the request, the call answers 200, and the
\* notification is attempted also when the render failed.
C8_SideEffectsIsolated == []C8_Answers200 /\ [][C8_ApprovalKept]_vars

\* an approval whose render and notification both failed answered 200
C8_Witness ==
  \E k \in InFlight :
    /\ k.kind = "approve" /\ k.pc = "done" /\ k.resp.code = 200
    /\ k.renders = 1 /\ k.pdfFilename = None
    /\ k.sends = 1 /\ k.sent = None
    /\ store[k.id].status = "APPROVED"

\* C9: no two approved requests carry the same invoice number.
C9_InvoiceNumbersUnique ==
  \A i, j \in Rows :
    (/\ i # j
     /\ store[i].status = "APPROVED"
     /\ store[j].status = "APPROVED") =>
      store[i].invoiceNumber # store[j].invoiceNumber

\* the link ends with the invoice number
Embeds(link, invoiceNumber) ==
  /\ Len(link) > Len(invoiceNumber)
  /\ SubSeq(link, Len(link) - Len(invoiceNumber) + 1, Len(link)) = invoiceNumber

ApprovedShape(row) ==
  /\ row.status = "APPROVED"
  /\ row.adminAction = Some("APPROVED")
  /\ row.paymentStatus = Some("PENDING")
  /\ row.invoiceNumber # None
  /\ Embeds(row.paymentLink, row.invoiceNumber)

C10_ApprovedRows == \A i \in Rows : store[i].status = "APPROVED" => ApprovedShape(store[i])

\* the approval update of handler k is the step taken
C10_Commits(k) ==
  /\ k.kind = "approve"
  /\ k.pc = "update"
  /\ Moved(k)
  /\ \A k2 \in BagToSet(calls') : k2.pc # "done"

C10_UpdateEffect ==
  \A k \in InFlight :
    C10_Commits(k) =>
      /\ ApprovedShape(store'[k.id])
      /\ store'[k.id].invoiceNumber = k.invoiceNumber
      /\ store'[k.id].quantity = store[k.id].quantity
      /\ store'[k.id].rate = store[k.id].rate
      /\ store'[k.id].userId = store[k.id].userId
      /\ store'[k.id].rejectionReason = store[k.id].rejectionReason
      /\ \A j \in Rows : j # k.id => store'[j] = store[j]

\* C10: the approval update leaves the request with status APPROVED,
\* adminAction APPROVED, paymentStatus PENDING, an invoice number and a
\* payment link that ends with that invoice number, and leaves quantity,
\* rate, submitter identifier and rejection reason as they were; every
\* stored request whose status is APPROVED has that shape.
C10_ApprovalEffect == []C10_ApprovedRows /\ [][C10_UpdateEffect]_vars

\* an approve call has answered 200 and the request is stored as APPROVED
C10_Witness ==
  \E k \in InFlight :
    /\ k.kind = "approve" /\ k.pc = "done" /\ k.resp.code = 200
    /\ k.request[1].status = "PENDING_VERIFICATION"
    /\ ApprovedShape(store[k.id])
    /\ store[k.id].invoiceNumber = k.invoiceNumber

\* quantity * rate * 0.002 of a stored request, rate 0 when absent
Uncapped(row) == TimesPremiumRate(TotalValue(row.quantity, RateOrZero(row.rate)))

\* min(quantity * rate * 0.002, 99999999.99)
ExpectedPremium(row) ==
  IF AmountGt(Uncapped(row), MAX_PREMIUM) THEN MAX_PREMIUM ELSE Uncapped(row)

Negative(a) == a.l < 0

\* the requests a step has inserted
Inserted == { i \in 1..Len(store') : i > Len(store) }

\* C11: every request createInsuranceRequest stores has premiumAmount equal
\* to min(quantity * rate * 0.002, 99999999.99) in whole cents, rate 0 when
\* absent, and not negative.
C11_CreatedPremium ==
  [][\A i \in Inserted :
       /\ store'[i].premiumAmount = Some(Round2(ExpectedPremium(store'[i])))
       /\ ~Negative(store'[i].premiumAmount[1])]_vars

C12_AtMostCap ==
  \A i \in Rows :
    store[i].premiumAmount # None =>
      ~AmountGt(store[i].premiumAmount[1], MAX_PREMIUM)

C12_CapStored ==
  /\ \A i \in Inserted :
       AmountGt(Uncapped(store'[i]), MAX_PREMIUM) =>
         store'[i].premiumAmount = Some(MAX_PREMIUM)
  /\ \A k \in InFlight :
       (/\ C10_Commits(k)
        /\ AmountGt(IF k.request[1].premiumAmount # None
                    THEN k.request[1].premiumAmount[1]
                    ELSE Uncapped(k.request[1]), MAX_PREMIUM)) =>
         store'[k.id].premiumAmount = Some(MAX_PREMIUM)

\* C12: every stored premiumAmount is at most 99999999.99 after any
\* sequence of submit, approve, reject and recalculate-premiums steps, and
\* a submit or approve whose computed premium exceeds the cap stores
\* exactly 99999999.99.
C12_PremiumCapped == []C12_AtMostCap /\ [][C12_CapStored]_vars

\* a request older than the premium, worth more than the cap allows, was
\* approved and is stored with exactly the cap
C12_Witness ==
  \E k \in InFlight :
    /\ k.kind = "approve" /\ k.pc = "done" /\ k.resp.code = 200
    /\ k.request[1].premiumAmount = None
    /\ AmountGt(Uncapped(k.request[1]), MAX_PREMIUM)
    /\ store[k.id].premiumAmount = Some(MAX_PREMIUM)

\* the finalized premium of the request an approve call read
Finalized(request) ==
  LET p == IF request.premiumAmount # None
           THEN request.premiumAmount[1]
           ELSE Uncapped(request)
  IN  IF AmountGt(p, MAX_PREMIUM) THEN MAX_PREMIUM ELSE p

C13_Passed ==
  \A k \in InFlight :
    k.kind = "approve" =>
      /\ k.rendering # None =>
           k.rendering[1].premiumAmount = Some(Finalized(k.request[1]))
      /\ k.sent # None =>
           k.sent[1].premiumAmount = Some(Round2(Finalized(k.request[1])))

C13_Stored ==
  \A k \in InFlight :
    C10_Commits(k) =>
      store'[k.id].premiumAmount = Some(Round2(Finalized(k.request[1])))

\* C13: the premium approveRequest stores, passes to the renderer and shows
\* in the notification is the premium of the request it read when that is
\* not null, otherwise quantity * rate * 0.002 with rate 0 when absent, in
\* both cases clamped to 99999999.99; the store and the notification hold
\* it in whole cents.
C13_FinalizedPremium == []C13_Passed /\ [][C13_Stored]_vars

\* an approval that reused a stored premium has rendered and notified
C13_Witness ==
  \E k \in InFlight :
    /\ k.kind = "approve" /\ k.pc = "done" /\ k.resp.code = 200
    /\ k.request[1].premiumAmount # None
    /\ k.rendering # None /\ k.sent # None
    /\ k.sent[1].premiumAmount = k.request[1].premiumAmount

\* the consents the interface counts as granted, and as withheld
GrantedConsents ==
  { ConsentBool(TRUE), ConsentText(<<"T", "R", "U", "E">>),
    ConsentText(<<"t", "r", "u", "e">>), ConsentText(<<" ", "Y", "e", "s", " ">>),
    ConsentText(<<"y", "e", "s">>), ConsentText(<<"1">>) }

WithheldConsents ==
  { ConsentBool(FALSE), ConsentOmitted, ConsentText(<<"n", "o">>),
    ConsentText(<<"N", "O">>), ConsentText(<<"0">>),
    ConsentText(<<"F", "a", "l", "s", "e">>) }

\* the other fields of the body are acceptable
OtherFieldsGood(body) ==
  /\ DigitsOnly(body.userId) # <<>>
  /\ body.quantity >= 1
  /\ ~TimestampInvalid(body.timestamp)

C14_Decided ==
  \A k \in InFlight :
    k.kind = "create" =>
      /\ k.body.consent \in WithheldConsents =>
           (k.pc = "done" /\ k.resp.code = 400 /\ k.dbWrites = 0)
      /\ (k.body.consent \in GrantedConsents /\ OtherFieldsGood(k.body)) =>
           k.resp.code # 400

C14_NothingStored ==
  \A k \in BagToSet(calls') :
    (Arrived(k) /\ k.kind = "create" /\ k.body.consent \in WithheldConsents) =>
      store' = store

\* C14: createInsuranceRequest counts "TRUE", "yes", "1" (in any case, with
\* blanks around) and true as consent granted, and "no", "0", false and an
\* omitted consent as withheld; a submit with withheld consent answers 400
\* and stores nothing, whatever its other fields are, and a granted consent
\* is never the reason of a 400.
C14_ConsentDecides == []C14_Decided /\ [][C14_NothingStored]_vars

\* a request was stored on the consent " Yes " and the next submit, with
\* consent "no", was answered 400
C14_Witness ==
  /\ Len(store) = 1
  /\ store[1].consent
  /\ \E k \in InFlight :
       /\ k.kind = "create" /\ k.pc = "done"
       /\ k.body.consent = ConsentText(<<"n", "o">>)
       /\ OtherFieldsGood(k.body)
       /\ k.resp.code = 400
       /\ k.resp.message = <<"User consent is required to proceed">>

\* the answers that refuse a call: validation, not found, conflict
Refusals == {400, 404, 409}

C15_NoEffects ==
  \A k \in InFlight :
    (k.pc = "done" /\ k.resp.code \in Refusals) =>
      /\ k.updated = None
      /\ k.renders = 0 /\ k.rendering = None
      /\ k.sends = 0 /\ k.sent = None

C15_StoreKept ==
  \A k \in BagToSet(calls') :
    (Arrived(k) /\ k.pc = "done" /\ k.resp.code \in Refusals) =>
      store' = store

\* C15: a submit, approve or reject call that answers 400, 404 or 409 has
\* updated no request, rendered nothing and notified nobody, and the step
\* in which it answers leaves the store as it was.
C15_RefusedBeforeMutation == []C15_NoEffects /\ [][C15_StoreKept]_vars

\* a submit lost the race for its submitter: its insert was refused, it
\* answered 409 and the one stored request is the winner's
C15_Witness ==
  \E k \in InFlight :
    /\ k.kind = "create" /\ k.pc = "done"
    /\ k.resp = UniqueViolationResp
    /\ Len(store) = 1
    /\ store[1].userId = k.cleanUserId

\* C16: every answer with an error status carries success false and a
\* message.
C16_ErrorsCarryMessage ==
  \A k \in InFlight :
    (k.pc = "done" /\ k.resp.code >= 400) =>
      /\ k.resp.hasSuccess
      /\ k.resp.success = FALSE
      /\ k.resp.message # <<>>

\* the renders that have settled
Renderings ==
  { k.rendering[1] : k \in { c \in InFlight : c.rendering # None } }

\* C17: a temporary image file created for a render no longer exists once
\* generateInvoicePdf has settled.
C17_TempFileRemoved ==
  \A r \in Renderings : r.tempCreated => ~r.tempExists

\* no image could be had: none was downloaded and no local fallback exists
NoImageToShow(r) ==
  /\ r.download \in {"none", "refused", "openFailed", "writeFailed"}
  /\ ~r.localExists

\* C18: a render for a request without image URL, or whose download failed,
\* and without local fallback image resolves with the invoice's filename
\* and shows the placeholder text, unless the document itself fails.
C18_PlaceholderInsteadOfFailure ==
  \A r \in Renderings :
    (NoImageToShow(r) /\ r.pdf \in {"", "finish"}) =>
      /\ r.settled = "resolved"
      /\ r.filename = r.invoiceNumber \o <<".pdf">>
      /\ r.placeholder

\* <base>/invoices/<invoiceNumber>.pdf
InvoiceUrlShape(row) ==
  row.invoicePdfUrl =
    <<ServerUrl, "/invoices/">> \o row.invoiceNumber \o <<".pdf">>

\* C19: every stored invoicePdfUrl is <base>/invoices/<invoiceNumber>.pdf
\* for the request's invoice number, and a GET of its path is answered
\* with the document.
C19_InvoiceServed ==
  /\ \A i \in Rows :
       store[i].invoicePdfUrl # None => InvoiceUrlShape(store[i])
  /\ \A k \in InFlight :
       (k.kind = "get" /\ k.pc = "done") => k.resp.code = 200

\* the instant a submitted timestamp denotes: the date an ISO string
\* spells, an epoch in seconds (below 10000000000) times 1000, an epoch in
\* milliseconds as it is
Denoted(value) ==
  IF value.type = "string" /\ value.date # None THEN value.date[1]
  ELSE IF NumLt(ParseInt(value)[1], SecondsLimit)
  THEN NumTimes1000(ParseInt(value)[1])
  ELSE ParseInt(value)[1]

\* the submit whose insert is the step taken
Inserting == { k \in InFlight : k.kind = "create" /\ k.pc = "insert" /\ Moved(k) }

\* C20: the timestamp createInsuranceRequest stores is the instant the
\* submitted timestamp denotes.
C20_TimestampStored ==
  [][\A i \in Inserted : \A k \in Inserting :
       store'[i].timestamp = Denoted(k.body.timestamp)]_vars

\* the admin handlers that take a step from the given await
Stepping(kind, pc) ==
  { k \in InFlight : k.kind = kind /\ k.pc = pc /\ Moved(k) }

C21_Order ==
  \A k \in InFlight :
    k.kind = "approve" =>
      /\ (k.renders = 1 \/ k.pc \in {"render", "attach", "notify"}) =>
           k.dbWrites >= 1
      /\ (k.sends = 1 \/ k.pc = "notify") =>
           (k.renders = 1 /\ k.pc \notin {"render", "attach"})

C21_Decided ==
  /\ \A k \in Stepping("approve", "render") :
       store[k.id].status # "PENDING_VERIFICATION"
  /\ \A k \in Stepping("approve", "notify") :
       store[k.id].status # "PENDING_VERIFICATION"
  /\ \A k \in Stepping("reject", "notify") :
       store[k.id].status # "PENDING_VERIFICATION"

\* C21: approveRequest has committed its approval update before its render
\* runs, and its render and attach update have settled before it sends the
\* notification; whenever a render or a notification of a request takes
\* place, the stored status of the request is no longer
\* PENDING_VERIFICATION.
C21_CommitRenderNotify == []C21_Order /\ [][C21_Decided]_vars

\* an approval is about to notify: the document is rendered and attached
C21_Witness ==
  \E k \in InFlight :
    /\ k.kind = "approve" /\ k.pc = "notify"
    /\ k.renders = 1 /\ k.sends = 0
    /\ k.dbWrites = 2
    /\ store[k.id].status = "APPROVED"
    /\ store[k.id].invoicePdfUrl # None

\* the admin handlers in flight that have committed a decision on request i
Deciders(i) ==
  { k \in InFlight :
      k.kind \in {"approve", "reject"} /\ k.id = i /\ k.dbWrites >= 1 }

\* the admin handlers in flight that have notified the submitter of request i
Notifiers(i) ==
  { k \in InFlight :
      k.kind \in {"approve", "reject"} /\ k.id = i /\ k.sent # None }

\* C22: at most one decision update, to APPROVED or to REJECTED, is ever
\* committed for a request, and its submitter is notified of at most one
\* decision.
C22_OneDecision ==
  \A i \in Rows :
    /\ \A k1, k2 \in Deciders(i) : k1 = k2 /\ CopiesIn(k1, calls) = 1
    /\ \A k1, k2 \in Notifiers(i) : k1 = k2 /\ CopiesIn(k1, calls) = 1

\* C23: a stored request has a rejectionReason only if its status is
\* REJECTED, and an invoiceNumber, a paymentLink or a paymentStatus only if
\* its status is APPROVED.
C23_DecisionFields ==
  \A i \in Rows :
    /\ store[i].rejectionReason # None => store[i].status = "REJECTED"
    /\ (\/ store[i].invoiceNumber # None
        \/ store[i].paymentLink # None
        \/ store[i].paymentStatus # None) => store[i].status = "APPROVED"

\* C24: every request createInsuranceRequest stores has quantity >= 1 and a
\* rate that is null or not negative.
C24_StoredQuantityAndRate ==
  [][\A i \in Inserted :
       /\ store'[i].quantity >= 1
       /\ store'[i].rate = None \/ ~Negative(store'[i].rate[1])]_vars

\* the create handlers that a step has answered 201
Created == { k2 \in BagToSet(calls') : Arrived(k2) /\ k2.kind = "create" /\ k2.resp.code = 201 }

C25_Persisted ==
  /\ \A i \in Inserted :
        /\ store'[i].status = "PENDING_VERIFICATION"
        /\ store'[i].consent = TRUE
        /\ store'[i].premiumAmount = Some(Round2(ExpectedPremium(store'[i])))
        /\ \E k2 \in Created : k2.resp.requestId = Some(i)
  /\ \A k2 \in Created :
        /\ Inserted = { k2.resp.requestId[1] }
        /\ k2.pc = "done"

C25_Kept ==
  /\ Len(store') >= Len(store)
  /\ \A i \in Rows : store'[i].id = store[i].id /\ store'[i].userId = store[i].userId

\* C25: a createInsuranceRequest that answers 201 has stored the request
\* with status PENDING_VERIFICATION, consent true and the premium computed
\* from its quantity and rate, and it is the only way a request is stored;
\* no step of submit, approve, reject or recalculate-premiums removes a
\* stored request.
C25_CreatedAndKept == [][C25_Persisted /\ C25_Kept]_vars

C25_Witness ==
  /\ \E k \in InFlight :
        /\ k.kind = "create" /\ k.pc = "done" /\ k.resp.code = 201
        /\ store[k.resp.requestId[1]].status = "PENDING_VERIFICATION"
        /\ store[k.resp.requestId[1]].consent = TRUE
        /\ store[k.resp.requestId[1]].premiumAmount = Some([l |-> 0, r |-> 8, f |-> 87000])

\* the status queries a step has answered
StatusAnswered == { k2 \in BagToSet(calls') : Arrived(k2) /\ k2.kind = "status" }

\* the stored requests whose userId is the digits of the given identifier
SameDigits(userId) == { i \in Rows : store[i].userId = DigitsOnly(userId) }

\* C26: a status query whose lookup does not fail answers 200 with the
\* request stored for the digits of the path parameter, whatever other
\* characters the parameter holds, and 404 when no stored request has those
\* digits.
C26_StatusByDigits ==
  [][\A k2 \in StatusAnswered :
       k2.resp.code # 500 =>
         IF SameDigits(k2.body.userId) = {}
         THEN k2.resp.code = 404
         ELSE /\ k2.resp.code = 200
              /\ k2.resp.requestId # None
              /\ k2.resp.requestId[1] \in SameDigits(k2.body.userId)
              /\ k2.resp.status = Some(store[k2.resp.requestId[1]].status)]_vars

C26_Witness ==
  \E k \in InFlight :
    /\ k.kind = "status" /\ k.pc = "done" /\ k.resp.code = 200
    /\ k.body.userId = <<"9", " ", "1">>
    /\ store[k.resp.requestId[1]].userId = <<"9", "1">>
    /\ Len(store) = 2

\* an amount in whole cents
WholeCents(a) == a.f % 1000 = 0

C27_To(k) ==
  /\ k.sent[1].to = store[k.id].userId
  /\ k.sent[1].to = DigitsOnly(k.sent[1].to)
  /\ k.sent[1].to # <<>>

C27_Approval(k) ==
  /\ k.sent[1].kind = "APPROVED"
  /\ k.sent[1].invoiceNumber # None
  /\ k.sent[1].invoiceNumber = k.invoiceNumber
  /\ k.sent[1].paymentLink # None
  /\ k.sent[1].paymentLink = k.paymentLink
  /\ k.sent[1].premiumAmount # None
  /\ WholeCents(k.sent[1].premiumAmount[1])
  /\ k.sent[1].premiumAmount = Some(Round2(Finalized(k.request[1])))

C27_Rejection(k) ==
  /\ k.sent[1].kind = "REJECTED"
  /\ k.sent[1].reason # None
  /\ k.sent[1].reason = k.reason

\* C27: the approval notification carries the invoice number and the
\* payment link of the approval and its premium in whole cents, the
\* rejection notification carries the rejection reason, and both go to the
\* stored, digits-only userId of the request.
C27_NotificationContent ==
  \A k \in InFlight :
    k.sent # None =>
      /\ C27_To(k)
      /\ k.kind = "approve" => C27_Approval(k)
      /\ k.kind = "reject" => C27_Rejection(k)

C27_Witness ==
  \E k \in InFlight :
    /\ k.kind = "approve" /\ k.sent # None
    /\ k.body = NoBody
    /\ k.sent[1].to = <<"9", "1">>
    /\ k.sent[1].premiumAmount = Some([l |-> 0, r |-> 8, f |-> 87000])
    /\ k.sent[1].invoiceNumber = store[k.id].invoiceNumber

\* 98.50, 4432.50 and 8.87
ExampleRate == [l |-> 0, r |-> 98, f |-> 50000]
ExampleTotal == [l |-> 0, r |-> 4432, f |-> 50000]
ExamplePremium == [l |-> 0, r |-> 8, f |-> 87000]

\* a request of 45 units at 98.50
IsExample(request) == request.quantity = 45 /\ request.rate = Some(ExampleRate)

C28_Arithmetic ==
  /\ TotalValue(45, ExampleRate) = ExampleTotal
  /\ Round2(TimesPremiumRate(ExampleTotal)) = ExamplePremium

C28_Stored ==
  \A i \in Rows :
    IsExample(store[i]) => store[i].premiumAmount = Some(ExamplePremium)

C28_Notified ==
  \A k \in InFlight :
    (k.kind = "approve" /\ k.sent # None /\ IsExample(k.request[1])) =>
      k.sent[1].premiumAmount = Some(ExamplePremium)

C28_Rendered ==
  \A k \in InFlight :
    (k.kind = "approve" /\ k.rendering # None /\ IsExample(k.request[1])) =>
      /\ k.rendering[1].premiumShown \in {None, Some(ExamplePremium)}
      /\ k.rendering[1].totalShown \in {None, Some(ExampleTotal)}
      /\ k.rendering[1].settled = "resolved" =>
           /\ k.rendering[1].premiumShown # None
           /\ k.rendering[1].totalShown # None

\* C28: for quantity 45 and rate 98.50 the total is 4432.50 and the premium
\* in whole cents is 8.87, and 8.87 is the stored premium of such a request,
\* the premium of its approval notification and the premium of its rendered
\* invoice, which shows the total 4432.50.
C28_ExamplePremium ==
  C28_Arithmetic /\ C28_Stored /\ C28_Notified /\ C28_Rendered

C28_Witness ==
  \E k \in InFlight :
    /\ k.kind = "approve" /\ k.sent # None /\ k.rendering # None
    /\ IsExample(store[k.id])
    /\ store[k.id].premiumAmount = Some(ExamplePremium)
    /\ k.sent[1].premiumAmount = Some(ExamplePremium)
    /\ k.rendering[1].premiumShown = Some(ExamplePremium)
    /\ k.rendering[1].totalShown = Some(ExampleTotal)

\* the pending lists a step has answered
Listed ==
  { k2 \in BagToSet(calls') : Arrived(k2) /\ k2.kind = "pending" /\ k2.resp.code = 200 }

\* the stored requests that are pending
Pending == { i \in Rows : store[i].status = "PENDING_VERIFICATION" }

C29_List(data, count) ==
  /\ { data[n] : n \in 1..Len(data) } = Pending
  /\ Len(data) = Cardinality(Pending)
  /\ \A m, n \in 1..Len(data) : m < n => data[m] > data[n]
  /\ count = Len(data)

\* C29: the list getPendingRequests answers holds every stored request whose
\* status is PENDING_VERIFICATION, each once, and no other request, the
\* later created before the earlier created, and count is its length.
C29_PendingNewestFirst ==
  [][\A k2 \in Listed :
       /\ k2.resp.data # None /\ k2.resp.count # None
       /\ C29_List(k2.resp.data[1], k2.resp.count[1])]_vars

C29_Witness ==
  \E k \in InFlight :
    /\ k.kind = "pending" /\ k.pc = "done" /\ k.resp.code = 200
    /\ Len(store) = 3
    /\ store[2].status \in Terminal
    /\ k.resp.data = Some(<<3, 1>>)
    /\ k.resp.count = Some(2)

\* an approval is waiting for generateInvoicePdf
Rendering == \E k \in InFlight : k.kind = "approve" /\ k.pc = "render"

\* an approval whose render has settled has sent its response
Responded ==
  \E k \in InFlight :
    /\ k.kind = "approve" /\ k.pc = "done"
    /\ k.renders = 1
    /\ k.rendering[1].settled \in {"resolved", "rejected"}

\* C30: an approval that waits for generateInvoicePdf eventually has the
\* render settled and its response sent, whatever the download does.
C30_RenderSettles == Rendering ~> Responded

\* the approvals that have answered 200
Approved200 ==
  { k \in InFlight : k.kind = "approve" /\ k.pc = "done" /\ k.resp.code = 200 }

\* C31: when approveRequest has answered 200, the invoice number of the
\* notification it sent and of the document it rendered is the
\* invoiceNumber stored on the request and returned in the response.
C31_OneInvoiceNumber ==
  \A k \in Approved200 :
    /\ k.sent # None =>
         /\ k.sent[1].invoiceNumber = store[k.id].invoiceNumber
         /\ k.sent[1].invoiceNumber = k.resp.invoiceNumber
    /\ (k.rendering # None /\ k.rendering[1].settled = "resolved") =>
         /\ k.rendering[1].invoiceNumber = store[k.id].invoiceNumber
         /\ k.rendering[1].invoiceNumber = k.resp.invoiceNumber

\* the submissions a step has refused as duplicates of a stored request
RefusedAsDuplicate ==
  { k2 \in BagToSet(calls') :
      /\ Arrived(k2) /\ k2.kind = "create" /\ k2.pc = "done"
      /\ k2.resp.code = 409 /\ k2.resp.requestId # None }

\* C32: a valid submission by a submitter whose stored request has been
\* rejected is not refused with 409.
C32_ResubmitAfterRejection ==
  [][\A k2 \in RefusedAsDuplicate :
       store[k2.resp.requestId[1]].status # "REJECTED"]_vars

\* the downloaded file was there and doc.image took it
DownloadedEmbeds(r) == r.download = "written" /\ r.embed

\* local path i is the first that exists and embeds
FirstGood(r, i) ==
  /\ r.locals[i] = "good"
  /\ \A j \in 1..(i - 1) : r.locals[j] # "good"

C33_Source(r) ==
  /\ r.source \in {"downloaded", "none"} \cup
                  { PossibleImagePaths[i] : i \in 1..Len(PossibleImagePaths) }
  /\ r.source = "downloaded" <=> DownloadedEmbeds(r)
  /\ \A i \in 1..Len(PossibleImagePaths) :
        r.source = PossibleImagePaths[i] <=>
          (~DownloadedEmbeds(r) /\ FirstGood(r, i))
  /\ r.placeholder <=> r.source = "none"

\* C33: a written invoice shows the downloaded image when it exists and
\* embeds, otherwise the first of uploads/<kantaParchiImage>,
\* kantaparchi/<id>.jpg, kantaparchi/<id>.png, kantaparchi/<userId>.jpg and
\* kantaparchi/<userId>.png that exists and embeds, and the placeholder
\* text exactly when it shows no image.
C33_ImageSourceOrder ==
  \A r \in Renderings : r.settled = "resolved" => C33_Source(r)

C33_Witness ==
  \E r \in Renderings :
    /\ r.settled = "resolved"
    /\ r.download = "written" /\ ~r.embed
    /\ r.locals = <<"bad", "none", "good", "good", "bad">>
    /\ r.source = "uploads/kantaparchi/<id>.png"
    /\ ~r.placeholder

\* the render of call k resolved and its attach update was committed
RenderedAndAttached(k) ==
  /\ k.rendering # None
  /\ k.rendering[1].settled = "resolved"
  /\ k.dbWrites = 2

C34_UrlIffAttached ==
  \A k \in Approved200 :
    store[k.id].invoicePdfUrl # None <=> RenderedAndAttached(k)

\* the step is the attach update of an approval
C34_OnlyUrl ==
  \A k \in Stepping("approve", "attach") :
    \A i \in Rows :
      /\ store'[i].status = store[i].status
      /\ store'[i].invoiceNumber = store[i].invoiceNumber
      /\ store'[i].premiumAmount = store[i].premiumAmount
      /\ store'[i].paymentLink = store[i].paymentLink
      /\ store'[i].paymentStatus = store[i].paymentStatus
      /\ [store'[i] EXCEPT !.invoicePdfUrl = None] =
           [store[i] EXCEPT !.invoicePdfUrl = None]

\* C34: when approveRequest has answered 200, the stored invoicePdfUrl is
\* set exactly if its render resolved and its attach update was committed,
\* and the attach update changes no field but invoicePdfUrl.
C34_AttachFrame == []C34_UrlIffAttached /\ [][C34_OnlyUrl]_vars

\* the stored premium of request i is within a cent of
\* min(quantity * rate * 0.002, 99999999.99)
PremiumSettled(st, i) ==
  /\ st[i].premiumAmount # None
  /\ WithinCent(ExpectedPremium(st[i]), st[i].premiumAmount[1])

\* the script runs that a step has started, and those it has ended with exit code 0
RecalcStarted ==
  { k2 \in BagToSet(calls') :
      Arrived(k2) /\ k2.kind = "recalc" /\ \A k \in InFlight : ~Moved(k) }

RecalcCompleted ==
  { k2 \in BagToSet(calls') :
      Arrived(k2) /\ k2.kind = "recalc" /\ k2.pc = "done" /\ k2.resp.code = 0 }

\* an update of the script changes premiumAmount only
C35_OnlyPremium ==
  \A k \in Stepping("recalc", "update") :
    /\ Len(store') = Len(store)
    /\ \A i \in Rows :
         [store'[i] EXCEPT !.premiumAmount = None] =
           [store[i] EXCEPT !.premiumAmount = None]

\* when the script completes every stored premium is settled
C35_AllSettled ==
  RecalcCompleted # {} => \A i \in 1..Len(store') : PremiumSettled(store', i)

\* a run started when every stored premium is settled updates nothing
C35_SecondRunIdle ==
  (\A i \in Rows : PremiumSettled(store, i)) =>
    \A k2 \in RecalcStarted : k2.pc = "done" /\ k2.dbWrites = 0 /\ store' = store

\* C35: the recalculate-premiums script changes no field of a request but
\* premiumAmount; when it completes every stored premiumAmount is within
\* 0.01 of min(quantity * rate * 0.002, 99999999.99); and a run started in
\* such a state, as a second run is, updates no request.
C35_RecalculateSettles ==
  [][C35_OnlyPremium /\ C35_AllSettled /\ C35_SecondRunIdle]_vars

C35_Witness ==
  \E k \in InFlight :
    /\ k.kind = "recalc" /\ k.pc = "done" /\ k.resp.code = 0
    /\ k.dbWrites = 1
    /\ Len(store) = 1
    /\ store[1].quantity = 20000
    /\ store[1].premiumAmount = Some(MAX_PREMIUM)

\* the paged lists whose page a step has read, and those it has answered
PageRead ==
  { k2 \in BagToSet(calls') : Arrived(k2) /\ k2.kind = "list" /\ k2.pc = "count" }

PageAnswered ==
  { k2 \in BagToSet(calls') :
      Arrived(k2) /\ k2.kind = "list" /\ k2.pc = "done" /\ k2.resp.code = 200 }

Min(a, b) == IF a < b THEN a ELSE b

\* the stored requests the filter of call k2 takes
Filtered(k2) ==
  { i \in Rows : k2.query.status = None \/ store[i].status = k2.query.status[1] }

\* the page is the filtered requests, newest first, from offset on, limit at most
C36_Page(k2) ==
  /\ Len(k2.requests) <= k2.query.limit
  /\ Len(k2.requests) =
       Min(k2.query.limit,
           IF Cardinality(Filtered(k2)) > k2.query.offset
           THEN Cardinality(Filtered(k2)) - k2.query.offset ELSE 0)
  /\ \A n \in 1..Len(k2.requests) :
       /\ k2.requests[n].id \in Filtered(k2)
       /\ k2.requests[n] = store[k2.requests[n].id]
       /\ Cardinality({ i \in Filtered(k2) : i > k2.requests[n].id }) =
            k2.query.offset + n - 1
  /\ k2.matching = Cardinality(Filtered(k2))

\* the answer carries the page that was read and the number of requests
\* that matched the filter when it was read
C36_Answer(k2) ==
  /\ k2.resp.data = Some([n \in 1..Len(k2.requests) |-> k2.requests[n].id])
  /\ k2.resp.count = Some(Len(k2.requests))
  /\ k2.resp.total = Some(k2.matching)

\* C36: getAllRequests answers the stored requests with the filter's
\* status (all without filter), newest first, at most limit after skipping
\* offset, and a total equal to the number of stored requests that matched
\* the filter when the page was read.
C36_PageAndTotal ==
  [][/\ \A k2 \in PageRead : C36_Page(k2)
     /\ \A k2 \in PageAnswered : C36_Answer(k2)]_vars

\* the approvals whose invoice has been written
Rendered ==
  { k \in InFlight :
      /\ k.kind = "approve" /\ k.rendering # None
      /\ k.rendering[1].settled = "resolved" }

\* quantity * rate in whole cents, rate 0 when absent
ExpectedTotal(request) ==
  Round2(TotalValue(request.quantity,
                    IF request.rate = None THEN Zero ELSE request.rate[1]))

\* C37: a written invoice shows quantity * rate, with rate 0 when absent,
\* as the amount of its line item and as its total, and as insurance amount
\* the premiumAmount approveRequest passed, whatever quantity * rate * 0.002
\* would be.
C37_ShownAmounts ==
  \A k \in Rendered :
    /\ k.rendering[1].amountShown = Some(ExpectedTotal(k.request[1]))
    /\ k.rendering[1].totalShown = Some(ExpectedTotal(k.request[1]))
    /\ k.rendering[1].premiumAmount = k.premiumAmount
    /\ k.rendering[1].premiumShown = Some(Round2(k.premiumAmount[1]))

C37_Witness ==
  \E k \in Rendered :
    /\ k.request[1].quantity = 20000
    /\ k.request[1].rate = Some([l |-> 30, r |-> 0, f |-> 0])
    /\ k.rendering[1].totalShown = Some([l |-> 600000, r |-> 0, f |-> 0])
    /\ k.rendering[1].premiumShown = Some(MAX_PREMIUM)
    /\ Uncapped(k.request[1]) # MAX_PREMIUM

====
